---- MODULE Spec2Model ----
(***************************************************************************)
(* marcpick: the scheme compiler (set_scheme), the three record decoders   *)
(* (_parse_marc, _parse_marcxml, _parse_aleph), the extraction engine      *)
(* (_parse_field, _is_match) and the two streaming splitters (parse_marc,  *)
(* parse_aleph) of src/marcpick/marcpick.py.                               *)
(*                                                                         *)
(* A Python str is a sequence of one-character strings.  The control       *)
(* characters are written "\t" "\n" "\r" "<VT>" (0x0B) "<1D>" (record      *)
(* terminator) "<1E>" (field terminator) "<1F>" (subfield delimiter).      *)
(***************************************************************************)
EXTENDS Integers, Sequences, FiniteSets, TLC

VARIABLES
  _fields,      \* self._fields: list of field queries
  _conditions,  \* self._conditions: list of {label, regex, matched}
  _combo,       \* self._combo
  scheme_args,  \* the arguments of the last set_scheme call
  call,         \* the last operation and its arguments
  result,       \* what the last operation returned (or that it raised)
  source,       \* parse_marc / parse_aleph: the text source being read
  pos,          \* characters (parse_marc) or lines (parse_aleph) read so far
  tail,         \* parse_marc: the local `tail`
  asn,          \* parse_aleph: the local `asn`
  records,      \* parse_aleph: the local `records`
  yielded,      \* the outcomes the generator has yielded so far
  pc            \* the generator's position: "idle", "loop", "done"

vars == <<_fields, _conditions, _combo, scheme_args, call, result,
          source, pos, tail, asn, records, yielded, pc>>

-----------------------------------------------------------------------------
(* Characters and the str methods the code uses                            *)

ANY == "@"
IND == "#"
RT == "<1D>"
FT == "<1E>"
SF == "<1F>"
VT == "<VT>"

Digits == {"0", "1", "2", "3", "4", "5", "6", "7", "8", "9"}
UpperSeq == <<"A", "B", "C", "D", "E", "F", "G", "H", "I", "J", "K", "L", "M", "N", "O", "P", "Q", "R", "S", "T", "U", "V", "W", "X", "Y", "Z">>
LowerSeq == <<"a", "b", "c", "d", "e", "f", "g", "h", "i", "j", "k", "l", "m", "n", "o", "p", "q", "r", "s", "t", "u", "v", "w", "x", "y", "z">>
Uppers == {UpperSeq[i] : i \in 1..Len(UpperSeq)}
Lowers == {LowerSeq[i] : i \in 1..Len(LowerSeq)}
Letters == Uppers \cup Lowers
Alnum == Digits \cup Letters
\* str.isspace(): 0x1C..0x1F are whitespace to Python
Whitespace == {" ", "\t", "\n", "\r", "\f", VT, "<1C>", RT, FT, SF}
Unprintable == {"\t", "\n", "\r", "\f", VT, "<1C>", RT, FT, SF}

Min(a, b) == IF a < b THEN a ELSE b

\* s[i:j] with Python's 0-based, clamped slice bounds
Slice(s, i, j) == SubSeq(s, Min(i, Len(s)) + 1, Min(j, Len(s)))
SliceFrom(s, i) == SubSeq(s, Min(i, Len(s)) + 1, Len(s))

lowerChar(c) ==
  IF c \in Uppers THEN LowerSeq[CHOOSE i \in 1..Len(UpperSeq) : UpperSeq[i] = c] ELSE c
lower(s) == [i \in 1..Len(s) |-> lowerChar(s[i])]
isprintable(s) == \A i \in 1..Len(s) : s[i] \notin Unprintable
isdigit(s) == Len(s) > 0 /\ \A i \in 1..Len(s) : s[i] \in Digits

\* str.find(c): 0-based offset of the first c, or -1
find(s, c) ==
  IF \E i \in 1..Len(s) : s[i] = c
  THEN (CHOOSE i \in 1..Len(s) : s[i] = c /\ \A j \in 1..(i - 1) : s[j] # c) - 1
  ELSE -1
count(s, c) == Cardinality({i \in 1..Len(s) : s[i] = c})

lstripSet(s, set) ==
  IF \A i \in 1..Len(s) : s[i] \in set THEN <<>>
  ELSE SubSeq(s, CHOOSE i \in 1..Len(s) :
                   s[i] \notin set /\ \A j \in 1..(i - 1) : s[j] \in set, Len(s))
rstripSet(s, set) ==
  IF \A i \in 1..Len(s) : s[i] \in set THEN <<>>
  ELSE SubSeq(s, 1, CHOOSE i \in 1..Len(s) :
                   s[i] \notin set /\ \A j \in (i + 1)..Len(s) : s[j] \in set)
lstrip(s) == lstripSet(s, Whitespace)
strip(s) == rstripSet(lstripSet(s, Whitespace), Whitespace)

RECURSIVE split(_, _)
\* str.split(sep) for a one-character sep
split(s, sep) ==
  LET i == find(s, sep)
  IN IF i = -1 THEN <<s>>
     ELSE <<SubSeq(s, 1, i)>> \o split(SubSeq(s, i + 2, Len(s)), sep)

RECURSIVE split2(_, _)
\* str.split(sep sep) for a doubled one-character sep ('$$')
split2(s, sep) ==
  IF \E i \in 1..(Len(s) - 1) : s[i] = sep /\ s[i + 1] = sep
  THEN LET i == CHOOSE k \in 1..(Len(s) - 1) :
                  /\ s[k] = sep /\ s[k + 1] = sep
                  /\ \A j \in 1..(k - 1) : ~(s[j] = sep /\ s[j + 1] = sep)
       IN <<SubSeq(s, 1, i - 1)>> \o split2(SubSeq(s, i + 2, Len(s)), sep)
  ELSE <<s>>

\* str.replace(c, '')
remove(s, c) == SelectSeq(s, LAMBDA x : x # c)

RECURSIVE replace2(_, _, _, _)
\* str.replace(a b, r): a two-character needle, a one-character replacement
replace2(s, a, b, r) ==
  IF Len(s) < 2 THEN s
  ELSE IF s[1] = a /\ s[2] = b THEN <<r>> \o replace2(SubSeq(s, 3, Len(s)), a, b, r)
  ELSE <<s[1]>> \o replace2(Tail(s), a, b, r)

RECURSIVE count2(_, _, _)
\* str.count(a b) for a two-character needle
count2(s, a, b) ==
  IF Len(s) < 2 THEN 0
  ELSE IF s[1] = a /\ s[2] = b THEN 1 + count2(SubSeq(s, 3, Len(s)), a, b)
  ELSE count2(Tail(s), a, b)

\* str.replace(a, b) for one-character a and b
replace1(s, a, b) == [i \in 1..Len(s) |-> IF s[i] = a THEN b ELSE s[i]]

RECURSIVE join(_)
\* ''.join(list)
join(ss) == IF ss = <<>> THEN <<>> ELSE Head(ss) \o join(Tail(ss))

-----------------------------------------------------------------------------
(* Python values                                                           *)

None == [isStr |-> FALSE, text |-> <<>>]
Str(t) == [isStr |-> TRUE, text |-> t]

-----------------------------------------------------------------------------
(* re: the token pattern of _set_condition, and re.compile / re.search on  *)
(* the fragment of patterns made of literal characters and ( ) groups      *)

\* '([0-9A-Za-z@]{3}[0-9A-Za-z@#]{2}[0-9A-Za-z@][^ \\)]*)' matches at s[i]
patternAt(s, i) ==
  /\ i + 5 <= Len(s)
  /\ \A k \in 0..2 : s[i + k] \in Alnum \cup {ANY}
  /\ \A k \in 3..4 : s[i + k] \in Alnum \cup {ANY, IND}
  /\ s[i + 5] \in Alnum \cup {ANY}

\* the last position of the match that starts at s[i]: [^ \)]* is greedy
patternEnd(s, i) ==
  IF \E k \in (i + 6)..Len(s) : s[k] \in {" ", ")"}
  THEN (CHOOSE k \in (i + 6)..Len(s) :
          s[k] \in {" ", ")"} /\ \A j \in (i + 6)..(k - 1) : s[j] \notin {" ", ")"}) - 1
  ELSE Len(s)

RECURSIVE findall(_, _)
\* re.findall(pattern, s), scanning from s[i]
findall(s, i) ==
  IF i > Len(s) THEN <<>>
  ELSE IF patternAt(s, i)
       THEN <<SubSeq(s, i, patternEnd(s, i))>> \o findall(s, patternEnd(s, i) + 1)
       ELSE findall(s, i + 1)

RECURSIVE sub(_, _)
\* re.sub(pattern, '{}', s), scanning from s[i]
sub(s, i) ==
  IF i > Len(s) THEN <<>>
  ELSE IF patternAt(s, i)
       THEN <<"{", "}">> \o sub(s, patternEnd(s, i) + 1)
       ELSE <<s[i]>> \o sub(s, i + 1)

RECURSIVE parenDepth(_, _)
\* the nesting depth after reading r, or -1 once a ")" closes nothing
parenDepth(r, d) ==
  IF d < 0 \/ r = <<>> THEN d
  ELSE parenDepth(Tail(r), IF Head(r) = "(" THEN d + 1
                           ELSE IF Head(r) = ")" THEN d - 1 ELSE d)

\* re.compile(r) succeeds: the groups are balanced
re_compiles(r) == parenDepth(r, 0) = 0

\* re.search(r, value): the literal text of r occurs in value
re_search(r, value) ==
  LET lit == SelectSeq(r, LAMBDA c : c \notin {"(", ")"})
  IN \E i \in 0..(Len(value) - Len(lit)) : SubSeq(value, i + 1, i + Len(lit)) = lit

-----------------------------------------------------------------------------
(* eval(text, {'__builtins__': None}, None) on expressions made of {},     *)
(* names, numbers, True/False, and/or/not, parentheses and calls           *)

runEnd(s, i, set) ==
  IF \E k \in i..Len(s) : s[k] \notin set
  THEN (CHOOSE k \in i..Len(s) : s[k] \notin set /\ \A j \in i..(k - 1) : s[j] \in set) - 1
  ELSE Len(s)

number(w) ==
  IF \A i \in 1..Len(w) : w[i] = "0" THEN "num0"
  ELSE IF w[1] = "0" THEN "bad" ELSE "num1"

word(w) ==
  IF w = <<"a", "n", "d">> THEN "and"
  ELSE IF w = <<"o", "r">> THEN "or"
  ELSE IF w = <<"n", "o", "t">> THEN "not"
  ELSE IF w = <<"T", "r", "u", "e">> THEN "True"
  ELSE IF w = <<"F", "a", "l", "s", "e">> THEN "False"
  ELSE "name"

RECURSIVE lex(_, _)
\* the token kinds of s from s[i] on; "bad" is a character no token starts with
lex(s, i) ==
  IF i > Len(s) THEN <<>>
  ELSE IF s[i] \in {" ", "\t", "\f"} THEN lex(s, i + 1)
  ELSE IF s[i] \in {"(", ")"} THEN <<s[i]>> \o lex(s, i + 1)
  ELSE IF s[i] = "{" /\ i < Len(s) /\ s[i + 1] = "}" THEN <<"ph">> \o lex(s, i + 2)
  ELSE IF s[i] \in Digits
       THEN <<number(SubSeq(s, i, runEnd(s, i, Digits)))>> \o lex(s, runEnd(s, i, Digits) + 1)
  ELSE IF s[i] \in Letters
       THEN <<word(SubSeq(s, i, runEnd(s, i, Alnum)))>> \o lex(s, runEnd(s, i, Alnum) + 1)
  ELSE <<"bad">> \o lex(s, i + 1)

\* values are "T" (truthy), "F" (falsy) or "raise" (evaluating it raises)
SyntaxErr == [ok |-> FALSE, v |-> "F", pos |-> 0]
Parsed(v, p) == [ok |-> TRUE, v |-> v, pos |-> p]
And(a, b) == IF a = "raise" THEN "raise" ELSE IF a = "F" THEN "F" ELSE b
Or(a, b) == IF a = "raise" THEN "raise" ELSE IF a = "T" THEN "T" ELSE b
Not(a) == IF a = "raise" THEN "raise" ELSE IF a = "T" THEN "F" ELSE "T"

RECURSIVE parse(_, _, _)
\* Python's expression grammar on these tokens, evaluated as it is parsed:
\*   or_test:  and_test ('or' and_test)*       and_test: not_test ('and' not_test)*
\*   not_test: 'not' not_test | primary        primary:  atom ('(' [or_test] ')')*
\*   atom:     {} | name | number | True | False | '(' [or_test] ')'
\* x is the position to parse at, or for the "_rest" rules and "trailers"
\* what is parsed so far.  () is the empty tuple; a call of anything these
\* expressions denote raises TypeError.
parse(rule, t, x) ==
  CASE rule = "or_test" -> parse("or_rest", t, parse("and_test", t, x))
    [] rule = "or_rest" ->
         IF ~x.ok THEN SyntaxErr
         ELSE IF x.pos <= Len(t) /\ t[x.pos] = "or"
              THEN LET r == parse("and_test", t, x.pos + 1)
                   IN IF r.ok THEN parse("or_rest", t, Parsed(Or(x.v, r.v), r.pos))
                      ELSE SyntaxErr
         ELSE x
    [] rule = "and_test" -> parse("and_rest", t, parse("not_test", t, x))
    [] rule = "and_rest" ->
         IF ~x.ok THEN SyntaxErr
         ELSE IF x.pos <= Len(t) /\ t[x.pos] = "and"
              THEN LET r == parse("not_test", t, x.pos + 1)
                   IN IF r.ok THEN parse("and_rest", t, Parsed(And(x.v, r.v), r.pos))
                      ELSE SyntaxErr
         ELSE x
    [] rule = "not_test" ->
         IF x <= Len(t) /\ t[x] = "not"
         THEN LET e == parse("not_test", t, x + 1)
              IN IF e.ok THEN Parsed(Not(e.v), e.pos) ELSE SyntaxErr
         ELSE parse("trailers", t, parse("atom", t, x))
    [] rule = "trailers" ->
         IF ~x.ok THEN SyntaxErr
         ELSE IF x.pos <= Len(t) /\ t[x.pos] = "("
              THEN IF x.pos + 1 <= Len(t) /\ t[x.pos + 1] = ")"
                   THEN parse("trailers", t, Parsed("raise", x.pos + 2))
                   ELSE LET e == parse("or_test", t, x.pos + 1)
                        IN IF e.ok /\ e.pos <= Len(t) /\ t[e.pos] = ")"
                           THEN parse("trailers", t,
                                      Parsed("raise", e.pos + 1))
                           ELSE SyntaxErr
         ELSE x
    [] rule = "atom" ->
         IF x > Len(t) THEN SyntaxErr
         ELSE IF t[x] \in {"ph", "False", "num0"} THEN Parsed("F", x + 1)
         ELSE IF t[x] \in {"True", "num1"} THEN Parsed("T", x + 1)
         ELSE IF t[x] = "name" THEN Parsed("raise", x + 1)
         ELSE IF t[x] = "("
              THEN IF x + 1 <= Len(t) /\ t[x + 1] = ")" THEN Parsed("F", x + 2)
                   ELSE LET e == parse("or_test", t, x + 1)
                        IN IF e.ok /\ e.pos <= Len(t) /\ t[e.pos] = ")"
                           THEN Parsed(e.v, e.pos + 1) ELSE SyntaxErr
         ELSE SyntaxErr

\* "SyntaxError", "raise" (any other exception), or the value's truth "T"/"F"
eval(text) ==
  LET t == lex(text, 1)
      e == parse("or_test", t, 1)
  IN IF "bad" \in {t[i] : i \in 1..Len(t)} \/ ~e.ok \/ e.pos # Len(t) + 1
     THEN "SyntaxError" ELSE e.v

-----------------------------------------------------------------------------
(* The scheme compiler                                                     *)

\* MarcPick._set_field: the value returned and self._fields afterwards
_set_field(field) ==
  IF ~field.isStr \/ strip(field.text) = <<>>
  THEN [ret |-> FALSE, fields |-> <<>>]
  ELSE LET fs == split(field.text, "\t")
       IN IF \E i \in 1..Len(fs) : Len(fs[i]) < 6 \/ ~isprintable(Slice(fs[i], 0, 6))
          THEN [ret |-> FALSE, fields |-> <<>>]
          ELSE [ret |-> TRUE, fields |-> [i \in 1..Len(fs) |-> lower(fs[i])]]

\* the text _set_condition works on (lines 118-119)
condText(text) ==
  replace2(replace2(remove(remove(strip(text), "\r"), "\n"), "\\", " ", "\t"),
           "\\", ")", VT)

\* the regex source of a condition token (line 130)
regexOf(cond) == replace1(replace1(SliceFrom(cond, 6), "\t", " "), VT, ")")

\* the Condition a token compiles to (lines 133-135)
Condition(cond) ==
  [label |-> replace1(lower(Slice(cond, 0, 6)), IND, " "),
   hasRegex |-> Len(cond) # 6,
   regex |-> IF Len(cond) = 6 THEN <<>> ELSE regexOf(cond),
   matched |-> <<>>]

\* a token the loop of lines 122-135 returns False on
badToken(cond) ==
  \/ Len(cond) < 6
  \/ ~isprintable(Slice(cond, 0, 6))
  \/ Len(cond) # 6 /\ ~re_compiles(regexOf(cond))

\* MarcPick._set_condition: ret is "True", "False" or "raise" (an exception
\* other than SyntaxError leaves eval), with self._conditions and
\* self._combo as they are at that point
_set_condition(condition) ==
  IF ~condition.isStr THEN [ret |-> "False", conditions |-> <<>>, combo |-> <<>>]
  ELSE LET text == condText(condition.text)
           conds == findall(text, 1)
           combo == lower(sub(text, 1))
           all == [i \in 1..Len(conds) |-> Condition(conds[i])]
       IN IF text = <<>> THEN [ret |-> "True", conditions |-> <<>>, combo |-> <<>>]
          ELSE IF \E i \in 1..Len(conds) : badToken(conds[i])
               THEN LET k == CHOOSE i \in 1..Len(conds) :
                               badToken(conds[i]) /\ \A j \in 1..(i - 1) : ~badToken(conds[j])
                    IN [ret |-> "False", conditions |-> SubSeq(all, 1, k - 1),
                        combo |-> <<>>]
          ELSE IF count2(combo, "{", "}") # Len(all)
               THEN [ret |-> "False", conditions |-> all, combo |-> combo]
          ELSE IF eval(combo) = "SyntaxError"
               THEN [ret |-> "False", conditions |-> all, combo |-> combo]
          ELSE IF eval(combo) = "raise"
               THEN [ret |-> "raise", conditions |-> all, combo |-> combo]
          ELSE [ret |-> "True", conditions |-> all, combo |-> combo]

\* MarcPick.set_scheme: the dict returned (or that the call raised) and the
\* three attributes afterwards
set_scheme(field, condition) ==
  LET f == _set_field(field)
      c == _set_condition(condition)
  IN IF c.ret = "raise"
     THEN [raised |-> TRUE, field |-> f.ret, condition |-> FALSE,
           fields |-> f.fields, conditions |-> c.conditions, combo |-> c.combo]
     ELSE IF ~f.ret \/ c.ret = "False"
     THEN [raised |-> FALSE, field |-> f.ret, condition |-> c.ret = "True",
           fields |-> <<>>, conditions |-> <<>>, combo |-> <<>>]
     ELSE [raised |-> FALSE, field |-> TRUE, condition |-> TRUE,
           fields |-> f.fields, conditions |-> c.conditions, combo |-> c.combo]

-----------------------------------------------------------------------------
(* The extraction engine                                                   *)

\* fieldMatches with the wildcard honoured one position early
fieldMatchesShifted(field, label) ==
  \A j \in 0..(Min(Len(field), Len(label)) - 1) :
    \/ field[j + 1] = lowerChar(label[j + 1])
    \/ (1 < j /\ j < 4 /\ field[j + 1] = ANY)

\* lines 246-249: the loop over zip(field, label.lower()) does not break
fieldMatches(field, label) ==
  \A j \in 0..(Min(Len(field), Len(label)) - 1) :
    \/ field[j + 1] = lowerChar(label[j + 1])
    \/ (2 < j /\ j < 5 /\ field[j + 1] = ANY)

\* conditionMatches with the wildcard honoured in the variant positions only
conditionMatchesAsField(clabel, label) ==
  \A j \in 0..(Min(Len(clabel), Len(label)) - 1) :
    \/ clabel[j + 1] = lowerChar(label[j + 1])
    \/ (2 < j /\ j < 5 /\ clabel[j + 1] = ANY)

\* lines 255-257: the loop over zip(condition['label'], label) does not break
conditionMatches(clabel, label) ==
  \A j \in 0..(Min(Len(clabel), Len(label)) - 1) :
    clabel[j + 1] \in {ANY, lowerChar(label[j + 1])}

\* matchedEntry that never searches the value
matchedEntryNoSearch(condition, value) == ~condition.hasRegex

\* lines 259-262: the entry appended to condition['matched']
matchedEntry(condition, value) ==
  ~condition.hasRegex \/ re_search(condition.regex, value)

\* MarcPick._parse_field: `values` and self._conditions afterwards
_parse_field(fields, label, value, conditional, st) ==
  IF value = <<>> THEN st
  ELSE [values |->
          [i \in 1..Len(st.values) |->
             IF fieldMatches(fields[i], label)
             THEN Append(st.values[i], value) ELSE st.values[i]],
        conditions |->
          IF ~conditional THEN st.conditions
          ELSE [k \in 1..Len(st.conditions) |->
                  IF conditionMatches(st.conditions[k].label, label)
                  THEN [st.conditions[k] EXCEPT
                          !.matched = Append(@, matchedEntry(st.conditions[k], value))]
                  ELSE st.conditions[k]]]

\* one call of _parse_field a decoder makes
Emit(label, value, conditional) ==
  [label |-> label, value |-> value, conditional |-> conditional]

RECURSIVE extract(_, _, _)
\* the decoder's calls of _parse_field, in order
extract(fields, emits, st) ==
  IF emits = <<>> THEN st
  ELSE extract(fields, Tail(emits),
               _parse_field(fields, Head(emits).label, Head(emits).value,
                            Head(emits).conditional, st))

RECURSIVE format(_, _)
\* combo.format(*matched): each {} becomes the next True / False
format(combo, matched) ==
  IF Len(combo) < 2 THEN combo
  ELSE IF combo[1] = "{" /\ combo[2] = "}" /\ matched # <<>>
       THEN (IF Head(matched) THEN <<"T", "r", "u", "e">> ELSE <<"F", "a", "l", "s", "e">>)
              \o format(SubSeq(combo, 3, Len(combo)), Tail(matched))
       ELSE <<combo[1]>> \o format(Tail(combo), matched)

\* any(c['matched'])
anyMatched(condition) == \E i \in 1..Len(condition.matched) : condition.matched[i]

\* MarcPick._is_match: "T", "F", or "raise" when eval raises
_is_match(conditions, combo) ==
  IF conditions = <<>> THEN "T"
  ELSE LET ex == format(combo, [k \in 1..Len(conditions) |-> anyMatched(conditions[k])])
       IN IF eval(ex) \in {"raise", "SyntaxError"} THEN "raise" ELSE eval(ex)

\* resetMatched that leaves the accumulators as they are
resetMatchedKept(conditions) == conditions

\* lines 146-147 (and 184-185, 216-217): every matched accumulator is reset
resetMatched(conditions) ==
  [k \in 1..Len(conditions) |-> [conditions[k] EXCEPT !.matched = <<>>]]

\* the three outcomes of a decoder, and a raise
Malformed(conditions) ==
  [kind |-> "None", match |-> FALSE, values |-> <<>>, conditions |-> conditions]

\* `return values if self._is_match() else []` after the emits
finish(fields, conditions, combo, emits) ==
  LET st == extract(fields, emits,
                    [values |-> [i \in 1..Len(fields) |-> <<>>], conditions |-> conditions])
      m == _is_match(st.conditions, combo)
  IN [kind |-> IF m = "raise" THEN "raise" ELSE "List",
      match |-> m = "T",
      values |-> IF m = "T" THEN st.values ELSE <<>>,
      conditions |-> st.conditions]

-----------------------------------------------------------------------------
(* The MARC21 decoder                                                      *)

LeaderLen == 24
EntryLen == 12
MinRecord == 40
MaxRecord == 99999

\* lines 150-151
normalise(record) == remove(remove(remove(lstrip(record), "\t"), "\r"), "\n")

\* lines 159-161: some directory entry's length+start block is not all digits
badDirectory(record, base) ==
  \E e \in 0..((base - LeaderLen - 4) \div EntryLen) :
    LET i == LeaderLen + 3 + EntryLen * e
    IN i < base /\ ~isdigit(Slice(record, i, i + 9))

\* malformedMarc without the count of field terminators
malformedMarcNoCount(record) ==
  LET base == find(record, FT)
  IN \/ ~(MinRecord <= Len(record) /\ Len(record) < MaxRecord)
     \/ base = -1 \/ base % EntryLen # 0
     \/ badDirectory(record, base)

\* lines 152-161: the structural checks that return None
malformedMarc(record) ==
  LET base == find(record, FT)
  IN \/ ~(MinRecord <= Len(record) /\ Len(record) < MaxRecord)
     \/ base = -1 \/ base % EntryLen # 0
     \/ count(record, FT) # (base \div EntryLen) - 1
     \/ badDirectory(record, base)

digitValue(c) == CHOOSE d \in 0..9 : <<"0", "1", "2", "3", "4", "5", "6", "7", "8", "9">>[d + 1] = c
RECURSIVE keyValue(_)
\* the order of the dict keys (five digits) under sorted()
keyValue(k) == IF k = <<>> THEN 0 ELSE 10 * keyValue(SubSeq(k, 1, Len(k) - 1)) + digitValue(k[Len(k)])

\* lines 164-167: the tags of the directory, by start position; of the
\* entries with the same start position the last one stays
directoryTags(record, base) ==
  LET n == (base - LeaderLen) \div EntryLen
      key(e) == Slice(record, LeaderLen + EntryLen * (e - 1) + 7,
                      LeaderLen + EntryLen * (e - 1) + 12)
      tag(e) == Slice(record, LeaderLen + EntryLen * (e - 1),
                      LeaderLen + EntryLen * (e - 1) + 3)
      kept == {e \in 1..n : \A f \in (e + 1)..n : key(f) # key(e)}
      rank(e) == Cardinality({f \in kept : keyValue(key(f)) < keyValue(key(e))})
  IN [k \in 1..Cardinality(kept) |-> tag(CHOOSE e \in kept : rank(e) = k - 1)]

\* lines 170-179: the _parse_field calls for one directory tag and its field
fieldEmits(tag, field) ==
  IF Slice(tag, 0, 2) = <<"0", "0">> THEN <<Emit(tag \o <<ANY, ANY, ANY>>, field, TRUE)>>
  ELSE LET subfields == split(field, SF)
           ind == subfields[1]
           sfs == SelectSeq(Tail(subfields), LAMBDA sf : Len(sf) > 1)
       IN <<Emit(tag \o ind \o <<ANY>>, SliceFrom(field, 2), FALSE),
            Emit(tag \o ind \o <<IND>>, ind, FALSE)>>
          \o [k \in 1..Len(sfs) |-> Emit(tag \o ind \o Slice(sfs[k], 0, 1),
                                          SliceFrom(sfs[k], 1), TRUE)]

\* lines 163-179: every _parse_field call of a well-formed record, in order
marcEmits(record) ==
  LET base == find(record, FT)
      tags == directoryTags(record, base)
      fields == split(SliceFrom(record, base + 1), FT)
  IN <<Emit(<<"L", "D", "R", "@", "@", "@">>, Slice(record, 0, LeaderLen), TRUE)>>
     \o join([k \in 1..Min(Len(tags), Len(fields)) |-> fieldEmits(tags[k], fields[k])])

\* MarcPick._parse_marc
_parse_marc(fields, conditions, combo, record) ==
  IF record = <<>> \/ malformedMarc(normalise(record))
  THEN Malformed(resetMatched(conditions))
  ELSE finish(fields, resetMatched(conditions), combo, marcEmits(normalise(record)))

-----------------------------------------------------------------------------
(* The Aleph sequential decoder                                            *)

MinLine == 19
AsnLen == 9

\* lines 224-237: the _parse_field calls for one line of the group
lineEmits(field) ==
  LET f == strip(field)
      tag == Slice(f, 10, 13)
      value == SliceFrom(f, 18)
      ind == Slice(f, 13, 15)
      sfs == SelectSeq(split2(value, "$"), LAMBDA sf : Len(sf) > 1)
  IN IF Len(f) < MinLine \/ ~isdigit(Slice(f, 0, AsnLen)) THEN <<>>
     ELSE IF tag \in {<<"F", "M", "T">>, <<"L", "D", "R">>} \/ Slice(tag, 0, 2) = <<"0", "0">>
     THEN <<Emit(tag \o <<ANY, ANY, ANY>>, value, TRUE)>>
     ELSE <<Emit(tag \o ind \o <<ANY>>, value, FALSE),
            Emit(tag \o ind \o <<IND>>, ind, FALSE)>>
          \o [k \in 1..Len(sfs) |-> Emit(tag \o ind \o <<sfs[k][1]>>,
                                          SliceFrom(sfs[k], 1), TRUE)]

\* lines 221-237: every _parse_field call for a group of lines, in order
alephEmits(fields) ==
  LET f == strip(fields[1])
  IN (IF Len(f) > MinLine - 1 /\ isdigit(Slice(f, 0, AsnLen))
      THEN <<Emit(<<"A", "S", "N", "@", "@", "@">>, Slice(f, 0, AsnLen), TRUE)>> ELSE <<>>)
     \o join([k \in 1..Len(fields) |-> lineEmits(fields[k])])

\* MarcPick._parse_aleph
_parse_aleph(fields, conditions, combo, lines) ==
  IF lines = <<>> THEN Malformed(resetMatched(conditions))
  ELSE finish(fields, resetMatched(conditions), combo, alephEmits(lines))

-----------------------------------------------------------------------------
(* The MARCXML decoder.  An element is [name, tag, ind1, ind2, text,       *)
(* children]: its local name, its attributes (an absent one is <<>>, an    *)
(* absent indicator [given |-> FALSE]), its text and its child elements.   *)
(* An Element with no children is falsy in Python.                         *)

\* attrib.get('ind1', ' ')
indicator(a) == IF a.given THEN a.v ELSE <<" ">>

childrenNamed(record, name) == SelectSeq(record.children, LAMBDA c : c.name = name)

\* lines 189-191 and 196: `ldr` is truthy
ldrTruthy(record) ==
  /\ childrenNamed(record, "leader") # <<>>
  /\ childrenNamed(record, "leader")[1].children # <<>>
ldrText(record) == childrenNamed(record, "leader")[1].text

\* lines 192-197
controlEmits(record, cf) ==
  IF cf.tag = <<>> \/ cf.text = <<>> THEN <<>>
  ELSE IF cf.tag # <<"L", "D", "R">> \/ (ldrTruthy(record) /\ ldrText(record) # cf.text)
  THEN <<Emit(cf.tag \o <<ANY, ANY, ANY>>, cf.text, TRUE)>>
  ELSE <<>>

\* lines 198-212
dataEmits(df) ==
  LET ti == df.tag \o indicator(df.ind1) \o indicator(df.ind2)
      sfs == SelectSeq(df.children, LAMBDA sf : sf.tag # <<>> /\ sf.text # <<>>)
  IN IF df.tag = <<>> \/ Len(ti) # 5 THEN <<>>
     ELSE <<Emit(ti \o <<IND>>, indicator(df.ind1) \o indicator(df.ind2), FALSE)>>
          \o [k \in 1..Len(sfs) |-> Emit(ti \o sfs[k].tag, sfs[k].text, TRUE)]
          \o <<Emit(ti \o <<ANY>>,
                    <<FT>> \o join([k \in 1..Len(sfs) |->
                                      (IF k = 1 THEN <<>> ELSE <<FT>>)
                                        \o sfs[k].tag \o sfs[k].text]),
                    FALSE)>>

\* lines 189-212: every _parse_field call for a record element, in order
xmlEmits(record) ==
  LET cfs == childrenNamed(record, "controlfield")
      dfs == childrenNamed(record, "datafield")
  IN (IF ldrTruthy(record) /\ ldrText(record) # <<>>
      THEN <<Emit(<<"L", "D", "R", "@", "@", "@">>, ldrText(record), TRUE)>> ELSE <<>>)
     \o join([k \in 1..Len(cfs) |-> controlEmits(record, cfs[k])])
     \o join([k \in 1..Len(dfs) |-> dataEmits(dfs[k])])

\* MarcPick._parse_marcxml
_parse_marcxml(fields, conditions, combo, record) ==
  IF record.children = <<>> THEN Malformed(resetMatched(conditions))
  ELSE finish(fields, resetMatched(conditions), combo, xmlEmits(record))

-----------------------------------------------------------------------------
(* The streaming splitters                                                 *)

ChunkSize == 4096

\* what a generator yields: the unit decoded and the decoder's return value
Yield(unit, o) == [unit |-> unit, kind |-> o.kind, values |-> o.values]

RECURSIVE yieldMarc(_, _, _, _)
\* `yield self._parse_marc(u)` for each u of units, until one raises
yieldMarc(fields, combo, units, st) ==
  IF units = <<>> \/ st.raised THEN st
  ELSE LET o == _parse_marc(fields, st.conditions, combo, Head(units))
       IN yieldMarc(fields, combo, Tail(units),
                    [st EXCEPT !.conditions = o.conditions,
                               !.out = Append(@, Yield(Head(units), o)),
                               !.raised = o.kind = "raise"])

\* lines 54-60: the loop body of parse_marc for one chunk
marcChunk(fields, combo, st, chunk) ==
  LET recs == split(rstripSet(lstripSet(chunk, {"\r", "\n"}), {"\r", "\n"}), RT)
  IN IF Len(recs) <= 1 THEN [st EXCEPT !.tail = @ \o chunk]
     ELSE yieldMarc(fields, combo,
                    <<st.tail \o recs[1]>> \o SubSeq(recs, 2, Len(recs) - 1),
                    [st EXCEPT !.tail = recs[Len(recs)]])

\* lines 61-62: after the last chunk
marcEnd(fields, combo, st) ==
  IF st.tail # <<>> THEN yieldMarc(fields, combo, <<st.tail>>, st) ELSE st

\* alephLine where a too-short line ends the current run
alephLineShortEnds(fields, combo, st, rawline) ==
  LET line == strip(rawline)
      y == IF st.asn # <<>> /\ st.asn # Slice(line, 0, AsnLen)
           THEN LET o == _parse_aleph(fields, st.conditions, combo, st.records)
                IN [st EXCEPT !.conditions = o.conditions,
                              !.out = Append(@, Yield(st.records, o)),
                              !.raised = o.kind = "raise",
                              !.records = <<>>]
           ELSE st
  IN IF Len(line) < MinLine THEN [y EXCEPT !.asn = <<>>]
     ELSE IF y.raised THEN y
     ELSE [y EXCEPT !.asn = Slice(line, 0, AsnLen), !.records = Append(@, line)]

\* lines 90-96: the loop body of parse_aleph for one line
alephLine(fields, combo, st, rawline) ==
  LET line == strip(rawline)
      y == IF st.asn # <<>> /\ st.asn # Slice(line, 0, AsnLen)
           THEN LET o == _parse_aleph(fields, st.conditions, combo, st.records)
                IN [st EXCEPT !.conditions = o.conditions,
                              !.out = Append(@, Yield(st.records, o)),
                              !.raised = o.kind = "raise",
                              !.records = <<>>]
           ELSE st
  IN IF Len(line) < MinLine THEN st
     ELSE IF y.raised THEN y
     ELSE [y EXCEPT !.asn = Slice(line, 0, AsnLen), !.records = Append(@, line)]

\* lines 97-98: after the last line
alephEnd(fields, combo, st) ==
  IF st.asn # <<>>
  THEN LET o == _parse_aleph(fields, st.conditions, combo, st.records)
       IN [st EXCEPT !.conditions = o.conditions,
                     !.out = Append(@, Yield(st.records, o)),
                     !.raised = o.kind = "raise"]
  ELSE st

-----------------------------------------------------------------------------
(* Inputs                                                                  *)

Leader == <<"0", "0", "1", "2", "8", "n", "a", "m", " ", "a", "2", "2", "0", "0", "0", "6", "1", " ", "a", " ", "4", "5", "0", "0">>
\* the record of the end-to-end examples: 001 = 123, 245 '1 ' $a Title
ExampleRecord ==
  Leader \o <<"0", "0", "1", "0", "0", "0", "4", "0", "0", "0", "0", "0", "2", "4", "5", "0", "0", "0", "9", "0", "0", "0", "0", "4", "<1E>", "1", "2", "3", "<1E>", "1", " ", "<1F>", "a", "T", "i", "t", "l", "e", "<1E>">>

MarcUnits ==
  { ExampleRecord,
    <<"\n">> \o ExampleRecord,
    <<"\r", "\n", " ", "<1E>">> \o ExampleRecord,
    Leader \o <<"0", "0", "1", "0", "0", "0", "4", "0", "0", "0", "0", "0", " ", "2", "4", "5", "0", "0", "0", "9", "0", "0", "0", "0", "4", "<1E>", "1", "2", "3", "<1E>", "1", " ", "<1F>", "a", "T", "i", "t", "l", "e", "<1E>">>,
    ExampleRecord \o <<"<1E>">>,
    Leader \o <<"0", "0", "1", "0", "0", "0", "4", "0", "0", "0", "0", "0", "2", "4", "5", "0", "0", "0", "9", "0", "0", "0", "0", "x", "<1E>", "1", "2", "3", "<1E>", "1", " ", "<1F>", "a", "T", "i", "t", "l", "e", "<1E>">>,
    Leader \o <<"0", "0", "1", "0", "0", "0", "4", "0", "0", "0", "0", "0", "<1E>", "4", "5", "6", "<1E>">>,
    Leader \o <<"2", "4", "5", "0", "0", "1", "2", "0", "0", "0", "0", "4", "0", "0", "1", "0", "0", "0", "4", "0", "0", "0", "0", "0", "<1E>", "7", "8", "9", "<1E>", "1", "0", "<1F>", "a", "O", "t", "h", "e", "r", "<1F>", "b", "<1F>", "c", "S", "u", "b", "<1E>">>,
    Leader \o <<"2", "4", "5", "0", "0", "0", "9", "0", "0", "0", "0", "0", "2", "4", "5", "0", "0", "0", "8", "0", "0", "0", "0", "9", "2", "4", "A", "0", "0", "0", "8", "0", "0", "0", "0", "9", "<1E>", "1", " ", "<1F>", "a", "T", "i", "t", "l", "e", "<1E>", " ", " ", "<1F>", "b", "T", "w", "o", "<1E>">>,
    Leader \o <<"0", "0", "1", "0", "0", "0", "4", "0", "0", "0", "0", "0", "\t", "2", "4", "\n", "5", "0", "0", "0", "9", "0", "0", "0", "0", "4", "<1E>", "1", "2", "3", "<1E>", "1", " ", "<1F>", "a", "T", "i", "t", "l", "e", "<1E>">>,
    <<"\n">> \o ExampleRecord \o <<"<1E>">>,
    <<"a", "b", "c">>, <<>> }

AlephLines ==
  << <<"0", "0", "0", "0", "0", "0", "0", "0", "1", " ", "L", "D", "R", " ", " ", " ", "L", " ", "0", "0", "1", "2", "8", "n", "a", "m", " ", "a", "2", "2", "0", "0", "0", "6", "1", " ", "a", " ", "4", "5", "0", "0">>,
     <<"0", "0", "0", "0", "0", "0", "0", "0", "1", " ", "2", "4", "5", "1", " ", " ", "L", " ", "$", "$", "a", "T", "i", "t", "l", "e", "$", "$", "b", "S", "u", "b", "$", "$", "c">>,
     <<"0", "0", "0", "0", "0", "0", "0", "0", "2", " ", "0", "0", "1", " ", " ", " ", "L", " ", "4", "5", "6">>,
     <<" ", " ", "0", "0", "0", "0", "0", "0", "0", "0", "1", " ", "2", "4", "5", "@", "@", " ", "L", " ", "$", "a", "O", "t", "h", "e", "r", "$", "$", "$", "$", "a", "x", "\n">>,
     <<"0", "0", "0", "0", "0", "0", "0", "0", "x", " ", "2", "4", "5", "1", " ", " ", "L", " ", "$", "$", "a", "T", "i", "t", "l", "e">>,
     <<"0", "0", "0", "0", "0", "0", "0", "0", "1", " ", "2", "4", "5">> >>

AlephUnits ==
  { <<AlephLines[1], AlephLines[2]>>, <<AlephLines[3]>>, <<AlephLines[4], AlephLines[2]>>,
    <<AlephLines[5], AlephLines[1]>>, <<AlephLines[6]>>, <<>> }

NoInd == [given |-> FALSE, v |-> <<>>]
Ind(c) == [given |-> TRUE, v |-> c]
Elem(name, tag, ind1, ind2, text, children) ==
  [name |-> name, tag |-> tag, ind1 |-> ind1, ind2 |-> ind2, text |-> text,
   children |-> children]
Sf(code, text) == Elem("subfield", code, NoInd, NoInd, text, <<>>)

XmlUnits ==
  { Elem("record", <<>>, NoInd, NoInd, <<>>,
         << Elem("leader", <<>>, NoInd, NoInd, Leader, <<>>),
            Elem("controlfield", <<"0", "0", "1">>, NoInd, NoInd, <<"1", "2", "3">>, <<>>),
            Elem("controlfield", <<"L", "D", "R">>, NoInd, NoInd, Leader, <<>>),
            Elem("datafield", <<"2", "4", "5">>, Ind(<<"1">>), Ind(<<" ">>), <<>>,
                 <<Sf(<<"a">>, <<"T", "i", "t", "l", "e">>), Sf(<<"b">>, <<>>), Sf(<<>>, <<"x">>), Sf(<<"c">>, <<"S", "u", "b">>)>>) >>),
    Elem("record", <<>>, NoInd, NoInd, <<>>,
         << Elem("leader", <<>>, NoInd, NoInd, Leader, <<Sf(<<"a">>, <<"x">>)>>),
            Elem("controlfield", <<"L", "D", "R">>, NoInd, NoInd, <<"o", "t", "h", "e", "r">>, <<>>),
            Elem("controlfield", <<>>, NoInd, NoInd, <<"4", "5", "6">>, <<>>),
            Elem("datafield", <<"2", "4", "5">>, NoInd, Ind(<<"1", "0">>), <<>>, <<Sf(<<"a">>, <<"T", "i", "t", "l", "e">>)>>),
            Elem("datafield", <<"2", "4", "A">>, NoInd, NoInd, <<>>, <<>>),
            Elem("datafield", <<>>, NoInd, NoInd, <<>>, <<Sf(<<"a">>, <<"T", "i", "t", "l", "e">>)>>) >>),
    Elem("record", <<>>, NoInd, NoInd, <<>>,
         << Elem("controlfield", <<"0", "0", "1">>, NoInd, NoInd, <<"4", "5", "6">>, <<>>) >>),
    Elem("record", <<>>, NoInd, NoInd, <<>>, <<>>) }

FieldTexts ==
  { None, Str(<<>>), Str(<<" ", "\t">>), Str(<<"2", "4", "5", "@", "@", "a">>), Str(<<"2", "4", "5", "@", "@", "A", "\t", "0", "0", "1", "@", "@", "@">>),
    Str(<<"2", "4", "5", "a">>), Str(<<"2", "4", "5", "1", "0", "a", "\t", "2", "4", "<1F>", "@", "@", "a">>) }

CondTexts ==
  { None, Str(<<>>), Str(<<" ", " ">>), Str(<<"2", "4", "5", "@", "@", "a", "(", "T", "i", "t", "l", "e", ")">>), Str(<<"2", "4", "5", "@", "@", "a", "(", "N", "o", "m", "a", "t", "c", "h", ")">>),
    Str(<<"2", "4", "5", "@", "@", "a", "(", "T", "i", "t", "l", "e", "\\", ")">>), Str(<<"2", "4", "5", "@", "@", "a", "(", "N", "o", "m", "a", "t", "c", "h", "\\", ")">>), Str(<<"2", "4", "5", "@", "@", "a", "T", "i", "t", "l", "e">>),
    Str(<<"a", "b", "c">>), Str(<<"2", "4", "5", "@", "@", "a", " ", "a", "n", "d", " ", "a", "b", "c">>), Str(<<"2", "4", "5", "@", "@", "a", " ", "o", "r", " ", "a", "b", "c">>), Str(<<"2", "4", "5", "@", "@", "a", " ", "o", "r">>),
    Str(<<"2", "4", "5", "a">>), Str(<<"1">>), Str(<<"2", "4", "5", "@", "@", "a", " ", "(", "2", "4", "5", "@", "@", "a", ")">>), Str(<<"2", "@", "5", "@", "@", "a">>), Str(<<"2", "4", "5", "@", "@", "@">>),
    Str(<<"n", "o", "t", " ", "2", "4", "5", "@", "@", "a">>), Str(<<"2", "4", "5", "@", "@", "a", " ", "{", "}">>), Str(<<"(", ")">>), Str(<<"2", "4", "5", "@", "@", "a", "T", "i", "t", "l", "e", "\\", ")">>),
    Str(<<"(", "2", "4", "5", "@", "@", "a", "T", "i", "t", "l", "e", " ", "o", "r", " ", "0", "0", "1", "@", "@", "@", "9", ")", " ", "a", "n", "d", " ", "n", "o", "t", " ", "2", "4", "5", "#", "#", "b">>), Str(<<"2", "4", "5", "@", "@", "a", "T", "h", "e", "\\", " ", "T", "i", "t", "l", "e">>) }

\* the schemes the decoders are run under
DecodeFieldTexts == { Str(<<"2", "4", "5", "@", "@", "a">>), Str(<<"2", "4", "5", "@", "@", "A", "\t", "0", "0", "1", "@", "@", "@">>), Str(<<"L", "D", "R", "@", "@", "@", "\t", "2", "4", "5", "1", "@", "a", "\t", "a", "s", "n", "@", "@", "@", "x">>) }

DecodeCondTexts ==
  { None, Str(<<>>), Str(<<" ", " ">>), Str(<<"2", "4", "5", "@", "@", "a", "(", "T", "i", "t", "l", "e", ")">>), Str(<<"2", "4", "5", "@", "@", "a", "(", "N", "o", "m", "a", "t", "c", "h", ")">>),
    Str(<<"2", "4", "5", "@", "@", "a", "(", "T", "i", "t", "l", "e", "\\", ")">>), Str(<<"2", "4", "5", "@", "@", "a", "(", "N", "o", "m", "a", "t", "c", "h", "\\", ")">>), Str(<<"2", "@", "5", "@", "@", "a", " ", "o", "r", " ", "a", "b", "c">>),
    Str(<<"2", "4", "5", "1", "0", "@">>), Str(<<"n", "o", "t", " ", "2", "4", "5", "@", "@", "@", "S", "u", "b", " ", "a", "n", "d", " ", "0", "@", "1", "@", "@", "@">>),
    Str(<<"(", "2", "4", "5", "@", "@", "a", "T", "i", "t", "l", "e", " ", "o", "r", " ", "0", "0", "1", "@", "@", "@", "9", ")", " ", "a", "n", "d", " ", "n", "o", "t", " ", "2", "4", "5", "#", "#", "b">>) }

\* the sources parse_marc is run on
ShortRecord == Leader \o <<"0", "0", "1", "0", "0", "0", "4", "0", "0", "0", "0", "0", "<1E>", "4", "5", "6", "<1E>">>
MarcSources ==
  { ShortRecord \o <<"<1D>", "\n">> \o ExampleRecord \o <<"<1D>", "\n">>,
    ShortRecord \o <<"<1D>">> \o ShortRecord \o <<"<1D>">>,
    <<"a", "b", "c", "<1D>", "\r", "\n">> \o ShortRecord,
    ShortRecord \o <<"\r", "\n">>,
    <<"\n", "<1D>", "<1D>">> \o ShortRecord \o <<"<1D>", "\r", "\n">> }

\* the longest source parse_aleph is run on, in lines
MaxLines == 4
StreamLines == <<AlephLines[1], AlephLines[2], AlephLines[3], AlephLines[4], AlephLines[6]>>
RECURSIVE LineSeqs(_)
LineSeqs(n) ==
  IF n = 0 THEN {<<>>}
  ELSE LineSeqs(n - 1)
         \cup {Append(ls, StreamLines[k]) : ls \in LineSeqs(n - 1), k \in 1..Len(StreamLines)}

-----------------------------------------------------------------------------
(* The state machine                                                       *)

NoCall == [op |-> "__init__"]
NoArgs == [given |-> FALSE, field |-> None, condition |-> None]

Init ==
  /\ _fields = <<>>
  /\ _conditions = <<>>
  /\ _combo = <<>>
  /\ scheme_args = NoArgs
  /\ call = NoCall
  /\ result = [raised |-> FALSE]
  /\ source = <<>> /\ pos = 0 /\ tail = <<>> /\ asn = <<>> /\ records = <<>>
  /\ yielded = <<>> /\ pc = "idle"

Idle == UNCHANGED <<source, pos, tail, asn, records, yielded, pc>>

\* set_scheme(field, condition)
SetSchemeFrom(fieldTexts, condTexts) ==
  \E field \in fieldTexts, condition \in condTexts :
    LET r == set_scheme(field, condition)
    IN /\ pc = "idle"
       /\ _fields' = r.fields
       /\ _conditions' = r.conditions
       /\ _combo' = r.combo
       /\ scheme_args' = [given |-> TRUE, field |-> field, condition |-> condition]
       /\ call' = [op |-> "set_scheme"]
       /\ result' = [raised |-> r.raised, field |-> r.field, condition |-> r.condition]
       /\ Idle

SetScheme == SetSchemeFrom(FieldTexts, CondTexts)
SetDecodeScheme == SetSchemeFrom(DecodeFieldTexts, DecodeCondTexts)

\* __exit__
Exit ==
  /\ pc = "idle"
  /\ call.op # "__exit__"
  /\ _fields' = <<>>
  /\ _conditions' = <<>>
  /\ _combo' = <<>>
  /\ scheme_args' = NoArgs
  /\ call' = [op |-> "__exit__"]
  /\ result' = [raised |-> FALSE]
  /\ Idle

\* carried: some matched accumulator held a True when the decoder was entered
Decoded(op, unit, o) ==
  /\ _conditions' = o.conditions
  /\ call' = [op |-> op, unit |-> unit,
              carried |-> \E k \in 1..Len(_conditions) : anyMatched(_conditions[k])]
  /\ result' = [raised |-> o.kind = "raise", kind |-> o.kind, match |-> o.match,
                values |-> o.values]
  /\ UNCHANGED <<_fields, _combo, scheme_args>>
  /\ Idle

\* one record unit through _parse_marc
DecodeMarc ==
  \E record \in MarcUnits :
    pc = "idle" /\ Decoded("parse_marc", record, _parse_marc(_fields, _conditions, _combo, record))

\* one group of lines through _parse_aleph
DecodeAleph ==
  \E lines \in AlephUnits :
    pc = "idle" /\ Decoded("parse_aleph", lines, _parse_aleph(_fields, _conditions, _combo, lines))

\* one record element through _parse_marcxml
DecodeMarcXml ==
  \E record \in XmlUnits :
    pc = "idle" /\ Decoded("parse_marcxml", record,
                           _parse_marcxml(_fields, _conditions, _combo, record))

Next == SetDecodeScheme \/ Exit \/ DecodeMarc \/ DecodeAleph \/ DecodeMarcXml
Spec == Init /\ [][Next]_vars

\* the scheme compiler alone, on every text
NextScheme == SetScheme \/ Exit
SpecScheme == Init /\ [][NextScheme]_vars

-----------------------------------------------------------------------------
(* parse_marc and parse_aleph as generators over a source, under a scheme  *)
(* that set_scheme has installed                                           *)

StreamSchemes ==
  { [field |-> Str(<<"2", "4", "5", "@", "@", "a">>), condition |-> Str(<<>>)],
    [field |-> Str(<<"2", "4", "5", "@", "@", "A", "\t", "0", "0", "1", "@", "@", "@">>), condition |-> Str(<<"2", "4", "5", "@", "@", "a", "T", "i", "t", "l", "e", " ", "o", "r", " ", "0", "0", "1", "@", "@", "@", "4">>)] }

InitUnder(a) ==
  LET r == set_scheme(a.field, a.condition)
  IN /\ _fields = r.fields
     /\ _conditions = r.conditions
     /\ _combo = r.combo
     /\ scheme_args = [given |-> TRUE, field |-> a.field, condition |-> a.condition]
     /\ call = [op |-> "set_scheme"]
     /\ result = [raised |-> r.raised, field |-> r.field, condition |-> r.condition]
     /\ source = <<>> /\ pos = 0 /\ tail = <<>> /\ asn = <<>> /\ records = <<>>
     /\ yielded = <<>> /\ pc = "idle"

InitStream == \E a \in StreamSchemes : InitUnder(a)

GenState == [tail |-> tail, asn |-> asn, records |-> records,
             conditions |-> _conditions, out |-> <<>>, raised |-> FALSE]

Stepped(st, newpos) ==
  /\ tail' = st.tail
  /\ asn' = st.asn
  /\ records' = st.records
  /\ _conditions' = st.conditions
  /\ yielded' = yielded \o st.out
  /\ pos' = newpos
  /\ UNCHANGED <<_fields, _combo, scheme_args, call, result, source>>

\* parse_marc(source): lines 49-52
MarcOpen ==
  \E src \in MarcSources :
    /\ pc = "idle"
    /\ source' = src
    /\ pc' = "loop"
    /\ call' = [op |-> "parse_marc"]
    /\ UNCHANGED <<_fields, _conditions, _combo, scheme_args, result,
                   pos, tail, asn, records, yielded>>

\* source.read(4096) returns n characters and the loop body runs on them
MarcRead ==
  \E n \in 1..Min(ChunkSize, Len(source) - pos) :
    LET st == marcChunk(_fields, _combo, GenState, SubSeq(source, pos + 1, pos + n))
    IN /\ pc = "loop" /\ call.op = "parse_marc"
       /\ Stepped(st, pos + n)
       /\ pc' = IF st.raised THEN "raised" ELSE "loop"

\* source.read(4096) returns '': lines 61-62
MarcEof ==
  LET st == marcEnd(_fields, _combo, GenState)
  IN /\ pc = "loop" /\ call.op = "parse_marc"
     /\ pos = Len(source)
     /\ Stepped(st, pos)
     /\ pc' = IF st.raised THEN "raised" ELSE "done"

NextMarcStream == MarcOpen \/ MarcRead \/ MarcEof
SpecMarcStream == InitStream /\ [][NextMarcStream]_vars

\* parse_aleph(source): lines 84-88
AlephOpen ==
  \E src \in LineSeqs(MaxLines) :
    /\ pc = "idle"
    /\ source' = src
    /\ pc' = "loop"
    /\ call' = [op |-> "parse_aleph"]
    /\ UNCHANGED <<_fields, _conditions, _combo, scheme_args, result,
                   pos, tail, asn, records, yielded>>

\* the for loop takes the next line of the source
AlephNext ==
  LET st == alephLine(_fields, _combo, GenState, source[pos + 1])
  IN /\ pc = "loop" /\ call.op = "parse_aleph"
     /\ pos < Len(source)
     /\ Stepped(st, pos + 1)
     /\ pc' = IF st.raised THEN "raised" ELSE "loop"

\* the source is exhausted: lines 97-98
AlephEof ==
  LET st == alephEnd(_fields, _combo, GenState)
  IN /\ pc = "loop" /\ call.op = "parse_aleph"
     /\ pos = Len(source)
     /\ Stepped(st, pos)
     /\ pc' = IF st.raised THEN "raised" ELSE "done"

NextAleph == AlephOpen \/ AlephNext \/ AlephEof
SpecAleph == InitStream /\ [][NextAleph]_vars

-----------------------------------------------------------------------------
(* Properties                                                              *)

DecodeOps == {"parse_marc", "parse_aleph", "parse_marcxml"}
Compiled == ~result.raised /\ result.field /\ result.condition
SchemeEmpty == _fields = <<>> /\ _conditions = <<>> /\ _combo = <<>>
ArgsAre(f, c) == scheme_args = [given |-> TRUE, field |-> Str(f), condition |-> Str(c)]
IsMatched(vs) == ~result.raised /\ result.kind = "List" /\ result.match /\ result.values = vs
IsNoMatch == ~result.raised /\ result.kind = "List" /\ ~result.match /\ result.values = <<>>

\* the _parse_field calls the decoder made for the unit of the last call
Emits ==
  CASE call.op = "parse_marc" ->
         IF call.unit = <<>> \/ malformedMarc(normalise(call.unit)) THEN <<>>
         ELSE marcEmits(normalise(call.unit))
    [] call.op = "parse_aleph" -> IF call.unit = <<>> THEN <<>> ELSE alephEmits(call.unit)
    [] call.op = "parse_marcxml" ->
         IF call.unit.children = <<>> THEN <<>> ELSE xmlEmits(call.unit)

\* the label rule of a FieldQuery: tag and selector equal, case-insensitively,
\* a variant character equal or the query's ANY; the shorter length decides
LabelRule(query, label) ==
  \A j \in 1..Min(Len(query), Len(label)) :
    query[j] = lowerChar(label[j]) \/ (j \in {4, 5} /\ query[j] = ANY)

\* the rule with ANY honoured in every position
AnywhereRule(query, label) ==
  \A j \in 1..Min(Len(query), Len(label)) :
    query[j] = lowerChar(label[j]) \/ query[j] = ANY

\* C1: whenever the most recent set_scheme call did not compile both texts,
\* the field queries, the conditions and the combo are all empty.
C1_NoPartialScheme == call.op = "set_scheme" /\ ~Compiled => SchemeEmpty

RECURSIVE reduces(_)
\* t reduces to one expression E under  E -> {} | not E | ( E ) | E and E | E or E
reduces(t) ==
  LET n == Len(t)
      cut(i, k) == SubSeq(t, 1, i - 1) \o <<"E">> \o SubSeq(t, i + k, n)
  IN IF \E i \in 1..n : t[i] = "ph"
     THEN reduces(cut(CHOOSE i \in 1..n : t[i] = "ph", 1))
     ELSE IF \E i \in 1..(n - 1) : t[i] = "not" /\ t[i + 1] = "E"
     THEN reduces(cut(CHOOSE i \in 1..(n - 1) : t[i] = "not" /\ t[i + 1] = "E", 2))
     ELSE IF \E i \in 1..(n - 2) : t[i] = "(" /\ t[i + 1] = "E" /\ t[i + 2] = ")"
     THEN reduces(cut(CHOOSE i \in 1..(n - 2) :
                        t[i] = "(" /\ t[i + 1] = "E" /\ t[i + 2] = ")", 3))
     ELSE IF \E i \in 1..(n - 2) : t[i] = "E" /\ t[i + 1] \in {"and", "or"} /\ t[i + 2] = "E"
     THEN reduces(cut(CHOOSE i \in 1..(n - 2) :
                        t[i] = "E" /\ t[i + 1] \in {"and", "or"} /\ t[i + 2] = "E", 3))
     ELSE t = <<"E">>

\* the skeleton of a condition text and the tokens extracted from it
Skeleton(text) == lower(sub(condText(text), 1))
ValidBoolean(skeleton) ==
  LET t == lex(skeleton, 1)
  IN (\A i \in 1..Len(t) : t[i] \in {"ph", "and", "or", "not", "(", ")"}) /\ reduces(t)

\* C2: a condition text whose skeleton is not a boolean expression over the
\* placeholders, or whose placeholder count differs from the number of
\* conditions, is reported failed without raising and leaves the scheme empty.
C2_BadSkeletonFails ==
  LET c == scheme_args.condition
  IN /\ call.op = "set_scheme" /\ c.isStr /\ Skeleton(c.text) # <<>>
     /\ \/ ~ValidBoolean(Skeleton(c.text))
        \/ count2(Skeleton(c.text), "{", "}") # Len(findall(condText(c.text), 1))
     => ~result.raised /\ ~result.condition /\ SchemeEmpty

\* C3: with a valid field-selector and no condition (the default None, or an
\* empty or blank text) set_scheme compiles, the field queries stay installed
\* with zero conditions, and every well-formed record decoded is accepted.
C3_ConditionOptional ==
  /\ scheme_args.given /\ scheme_args.field \in DecodeFieldTexts
  /\ ~scheme_args.condition.isStr \/ strip(scheme_args.condition.text) = <<>>
  => /\ call.op = "set_scheme" => Compiled
     /\ _fields # <<>> /\ _conditions = <<>>
     /\ call.op \in DecodeOps /\ result.kind # "None"
          => result.kind = "List" /\ result.match

\* what C4 says of one condition text and the example record
ExampleCompiles(c) == ArgsAre(<<"2", "4", "5", "@", "@", "a">>, c) /\ call.op = "set_scheme" => Compiled
ExampleDecodes(c, matched) ==
  ArgsAre(<<"2", "4", "5", "@", "@", "a">>, c) /\ call.op = "parse_marc" /\ call.unit = ExampleRecord
    => IF matched THEN IsMatched(<< <<<<"T", "i", "t", "l", "e">>>> >>) ELSE IsNoMatch

\* C4 as stated: 245@@a(Title) compiles and the example record is matched
\* with [["Title"]]; 245@@a(Nomatch) compiles and the record yields [].
C4_ExampleAsWritten ==
  /\ ExampleCompiles(<<"2", "4", "5", "@", "@", "a", "(", "T", "i", "t", "l", "e", ")">>) /\ ExampleDecodes(<<"2", "4", "5", "@", "@", "a", "(", "T", "i", "t", "l", "e", ")">>, TRUE)
  /\ ExampleCompiles(<<"2", "4", "5", "@", "@", "a", "(", "N", "o", "m", "a", "t", "c", "h", ")">>) /\ ExampleDecodes(<<"2", "4", "5", "@", "@", "a", "(", "N", "o", "m", "a", "t", "c", "h", ")">>, FALSE)

\* C4 amended: as written the two texts do not compile (the token's regex
\* "(Title" is unbalanced) and the scheme is cleared; with the close
\* parenthesis escaped, 245@@a(Title\) compiles and the example record is
\* matched with [["Title"]], 245@@a(Nomatch\) compiles and the record yields [].
C4_ExampleEscaped ==
  /\ ExampleCompiles(<<"2", "4", "5", "@", "@", "a", "(", "T", "i", "t", "l", "e", "\\", ")">>) /\ ExampleDecodes(<<"2", "4", "5", "@", "@", "a", "(", "T", "i", "t", "l", "e", "\\", ")">>, TRUE)
  /\ ExampleCompiles(<<"2", "4", "5", "@", "@", "a", "(", "N", "o", "m", "a", "t", "c", "h", "\\", ")">>) /\ ExampleDecodes(<<"2", "4", "5", "@", "@", "a", "(", "N", "o", "m", "a", "t", "c", "h", "\\", ")">>, FALSE)
  /\ \A c \in {<<"2", "4", "5", "@", "@", "a", "(", "T", "i", "t", "l", "e", ")">>, <<"2", "4", "5", "@", "@", "a", "(", "N", "o", "m", "a", "t", "c", "h", ")">>} :
       ArgsAre(<<"2", "4", "5", "@", "@", "a">>, c) => SchemeEmpty /\ (call.op = "set_scheme" => ~result.condition)

C4_Witness ==
  /\ ArgsAre(<<"2", "4", "5", "@", "@", "a">>, <<"2", "4", "5", "@", "@", "a", "(", "T", "i", "t", "l", "e", "\\", ")">>)
  /\ call.op = "parse_marc" /\ call.unit = ExampleRecord
  /\ IsMatched(<< <<<<"T", "i", "t", "l", "e">>>> >>)

\* a freshly compiled identical scheme: the same conditions, nothing matched
Fresh(conditions) ==
  [k \in 1..Len(conditions) |->
     [label |-> conditions[k].label, hasRegex |-> conditions[k].hasRegex,
      regex |-> conditions[k].regex, matched |-> <<>>]]

DecodedAlone ==
  CASE call.op = "parse_marc" -> _parse_marc(_fields, Fresh(_conditions), _combo, call.unit)
    [] call.op = "parse_aleph" -> _parse_aleph(_fields, Fresh(_conditions), _combo, call.unit)
    [] call.op = "parse_marcxml" ->
         _parse_marcxml(_fields, Fresh(_conditions), _combo, call.unit)

\* C5: whatever was decoded before, the outcome of a unit and the matched
\* accumulators after it are those of decoding the unit alone under a freshly
\* compiled identical scheme.
C5_NoCarryOver ==
  call.op \in DecodeOps =>
    /\ result = [raised |-> DecodedAlone.kind = "raise", kind |-> DecodedAlone.kind,
                 match |-> DecodedAlone.match, values |-> DecodedAlone.values]
    /\ _conditions = DecodedAlone.conditions

\* a record that is filtered out right after one that set an accumulator
C5_Witness ==
  /\ call.op \in DecodeOps /\ call.carried
  /\ IsNoMatch /\ _fields # <<>>
  /\ \A k \in 1..Len(_conditions) : ~anyMatched(_conditions[k])

\* the values of the non-empty decoded fields whose label matches the query
SlotValues(query) ==
  LET hit == SelectSeq(Emits, LAMBDA e : e.value # <<>> /\ LabelRule(query, e.label))
  IN [k \in 1..Len(hit) |-> hit[k].value]

\* C6: under a compiled scheme, a Matched outcome has one value-list per
\* supplied field query, in order, holding exactly the values of the non-empty
\* decoded fields whose label matches that query, in decoding order.
C6_SlotPerQuery ==
  call.op \in DecodeOps /\ _fields # <<>> /\ result.kind = "List" /\ result.match =>
    LET supplied == split(scheme_args.field.text, "\t")
    IN /\ Len(result.values) = Len(supplied)
       /\ \A i \in 1..Len(supplied) : result.values[i] = SlotValues(lower(supplied[i]))

C6_Witness ==
  /\ call.op \in DecodeOps /\ result.kind = "List" /\ result.match
  /\ Len(result.values) = 2
  /\ result.values[1] # <<>> /\ result.values[2] = <<>>

\* the qualifying lines of a source, stripped
Qualifying(src) ==
  SelectSeq([k \in 1..Len(src) |-> strip(src[k])], LAMBDA l : Len(l) >= MinLine)

\* C7: parse_aleph yields one outcome per maximal run of consecutive
\* qualifying lines with the same leading 9 characters, in input order; a
\* too-short line is skipped and ends no run.
C7_MaximalRuns ==
  pc = "done" /\ call.op = "parse_aleph" =>
    LET groups == [i \in 1..Len(yielded) |-> yielded[i].unit]
    IN /\ join(groups) = Qualifying(source)
       /\ \A i \in 1..Len(groups) :
            /\ groups[i] # <<>>
            /\ \A k \in 1..Len(groups[i]) :
                 Slice(groups[i][k], 0, AsnLen) = Slice(groups[i][1], 0, AsnLen)
       /\ \A i \in 1..(Len(groups) - 1) :
            Slice(groups[i][1], 0, AsnLen) # Slice(groups[i + 1][1], 0, AsnLen)

\* two runs, the first one continued across a too-short line
C7_Witness ==
  /\ pc = "done" /\ call.op = "parse_aleph"
  /\ Len(source) = 4 /\ Len(strip(source[2])) < MinLine
  /\ Len(yielded) = 2 /\ Len(yielded[1].unit) = 2

\* the structural violations C8 names, of a record text
Violation(record) ==
  LET base == find(record, FT)
  IN /\ base # -1
     /\ \/ base % 12 # 0
        \/ count(record, FT) # (base \div 12) - 1
        \/ \E e \in 0..Len(record) :
             24 + 12 * e < base /\ ~isdigit(Slice(record, 24 + 12 * e + 3, 24 + 12 * e + 12))

\* the unit as _parse_marc measures it
AsMeasured(unit) ==
  SelectSeq(lstripSet(unit, Whitespace), LAMBDA c : c \notin {"\t", "\r", "\n"})

\* C8 as stated: a unit with a structural violation is Malformed.
C8_ViolationInUnit ==
  call.op = "parse_marc" /\ Violation(call.unit) => ~result.raised /\ result.kind = "None"

\* C8 amended: offsets and counts are taken in the unit after its leading
\* whitespace is stripped and its tab, CR and LF characters are removed; a
\* unit with a structural violation there is Malformed, whatever the scheme.
C8_ViolationAsMeasured ==
  call.op = "parse_marc" /\ Violation(AsMeasured(call.unit))
    => ~result.raised /\ result.kind = "None"

C8_Witness ==
  /\ call.op = "parse_marc" /\ _fields # <<>>
  /\ call.unit # AsMeasured(call.unit)
  /\ Violation(AsMeasured(call.unit))
  /\ find(AsMeasured(call.unit), FT) % 12 = 0
  /\ result.kind = "None"

\* parse_marc on the whole source read as one chunk
OnePiece(src) ==
  marcEnd(_fields, _combo,
          marcChunk(_fields, _combo,
                    [tail |-> <<>>, asn |-> <<>>, records |-> <<>>,
                     conditions |-> Fresh(_conditions), out |-> <<>>, raised |-> FALSE],
                    src)).out
Outcomes(ys) == [i \in 1..Len(ys) |-> [kind |-> ys[i].kind, values |-> ys[i].values]]

\* C9: however the reads divide the source, parse_marc yields the outcomes
\* of the whole source split in one piece.
C9_ChunkingIrrelevant ==
  pc = "done" /\ call.op = "parse_marc" => Outcomes(yielded) = Outcomes(OnePiece(source))

\* the entries a condition records under a label rule
Entries(condition, Rule(_, _)) ==
  LET hit == SelectSeq(Emits, LAMBDA e :
                 e.conditional /\ e.value # <<>> /\ Rule(condition.label, e.label))
  IN [k \in 1..Len(hit) |-> ~condition.hasRegex \/ re_search(condition.regex, hit[k].value)]

\* C10 as stated: a condition records an entry for exactly the decoded fields
\* whose label matches it under the FieldQuery rule (ANY in the variant
\* positions only).
C10_FieldQueryRule ==
  call.op \in DecodeOps =>
    \A k \in 1..Len(_conditions) : _conditions[k].matched = Entries(_conditions[k], LabelRule)

\* C10 amended: a condition records an entry for exactly the decoded fields
\* whose label it matches with ANY honoured in every position: tag, variant
\* and selector.
C10_AnywhereRule ==
  call.op \in DecodeOps =>
    \A k \in 1..Len(_conditions) :
      _conditions[k].matched = Entries(_conditions[k], AnywhereRule)

\* a condition with ANY in its tag recorded an entry under a compiled scheme
C10_Witness ==
  /\ call.op \in DecodeOps
  /\ ArgsAre(<<"2", "4", "5", "@", "@", "A", "\t", "0", "0", "1", "@", "@", "@">>, <<"n", "o", "t", " ", "2", "4", "5", "@", "@", "@", "S", "u", "b", " ", "a", "n", "d", " ", "0", "@", "1", "@", "@", "@">>)
  /\ \E k \in 1..Len(_conditions) :
       /\ _conditions[k].label[2] = ANY
       /\ _conditions[k].matched # <<>>
       /\ ~LabelRule(_conditions[k].label, <<"0", "0", "1", "@", "@", "@">>)
====
